---- MODULE Spec2Model ----
(***************************************************************************)
(* LAWREADER tool 2: the graph-augmented retrieval loop.                   *)
(*                                                                         *)
(* One process holding a LawReader: a SemanticMatcher, a GraphTraversal    *)
(* and an AutoLinker, each with its own reference to a networkx graph, the *)
(* two FAISS indexes of the AutoLinker, the graph file and the two index   *)
(* files on disk, and the wall clock that node ids are derived from.       *)
(* Further specifications drive single functions of the AutoLinker, the    *)
(* processes that share the files, and the retry loop of tool 1's          *)
(* LLMClient.                                                              *)
(*                                                                         *)
(* Abstractions.  Texts (queries, scenario examples, principle texts) are  *)
(* small integers; article strings and titles are sequences of tokens      *)
(* held in the table Str and named by their index.  The two embedding      *)
(* models are pretrained networks outside the repository: their cosine     *)
(* similarities are fixed tables, scaled by 100 (0.92 is 92).  The 8 hex   *)
(* digits of md5 that go into a node id are taken to be collision-free on  *)
(* these small domains.  Letter case is not modelled: a token stands for   *)
(* its lower-cased word.                                                   *)
(***************************************************************************)
EXTENDS Integers, Sequences, FiniteSets, TLC

VARIABLES
    graphs,      \* heap of graph objects: handle -> graph
    mref,        \* SemanticMatcher.graph (a handle)
    tref,        \* GraphTraversal.graph (a handle)
    aref,        \* AutoLinker.graph (a handle)
    matcher,     \* SemanticMatcher.scenario_nodes / scenario_embeddings
    pidx,        \* AutoLinker.principle_index / principle_ids / principle_texts
    aidx,        \* AutoLinker.article_index / article_ids / article_texts
    disk,        \* the graph file and the two index files
    threshold,   \* LawReader.similarity_threshold
    clock,       \* int(time.time())
    ticks,       \* number of clock advances so far
    nq,          \* number of process_query calls so far
    last,        \* what the last process_query call did and returned
    probe,       \* arguments and results of a directly applied function
    procs,       \* the LawReader processes that share the files: id -> state
    fs,          \* the files they share: graph file, index files, lock files
    client       \* tool 1: the LLMClient.generate_response call under way

vars == <<graphs, mref, tref, aref, matcher, pidx, aidx, disk, threshold,
          clock, ticks, nq, last, probe, procs, fs, client>>

----------------------------------------------------------------------------
\* Bounds of the model.

MaxQueries == 2
MaxTicks == 1
MaxAdds == 2

----------------------------------------------------------------------------
\* Constants of the program (similarities are scaled by 100).

HardThreshold == 65
DefaultThreshold == 75
PrincipleThreshold == 92
ArticleThreshold == 75
TopK == 3
TimeSuffixMod == 1000000
BaseTime == 1762041600

----------------------------------------------------------------------------
\* Tokens of article strings, titles and links entries.

NumberTokens == {"1", "2", "14", "19", "21"}

IsNumber(t) == t \in NumberTokens

\* Article strings and titles, by index.
Str ==
    << <<"speech">>,                            \* 1 title and text of article 19
       <<"life", "liberty">>,                   \* 2 title and text of article 21
       <<"Article", "19", "life", "liberty">>,  \* 3 "Article 19 ... life and liberty"
       <<"equality", "19">>,                    \* 4 a number with no "Article" before it
       <<"Article", "14", "Article", "21">>,    \* 5 two references, the first unknown
       <<"life">>,                              \* 6 free text
       <<"Article", "14">>,                     \* 7 a reference to an unknown article
       <<"union">> >>                           \* 8 title and text of article 1

\* links entries, by index: "Principle N -> Article X"
LinkStr ==
    << <<"Principle", "1", "->", "Article", "19">>,
       <<"Principle", "2", "->", "Article", "21">>,
       <<"Principle", "1", "->", "Article", "14">> >>

Min(S) == CHOOSE x \in S : \A y \in S : x <= y

Words(s) == {s[i] : i \in 1..Len(s)} \ (NumberTokens \cup {"Article"})

\* cosine similarity of the matcher's model (all-MiniLM-L6-v2) between a
\* query and the text embedded for a scenario; IdText is str(node_id).
IdText == -1
MatcherSim(q, t) ==
    IF q = IdText \/ t = IdText THEN 20
    ELSE IF q = t THEN 100
    ELSE IF {q, t} = {1, 2} THEN 70
    ELSE 40

\* inner product of the AutoLinker's model (InLegalBERT) between two
\* principle texts.
PrincipleSim(x, y) ==
    IF x = y THEN 100
    ELSE IF {x, y} = {1, 2} \/ {x, y} = {4, 5} THEN 95
    ELSE IF {x, y} = {1, 3} THEN 80
    ELSE 50

\* inner product of the AutoLinker's model between two article texts
ArticleSim(x, y) ==
    IF Str[x] = Str[y] THEN 100
    ELSE IF Words(Str[x]) \cap Words(Str[y]) # {} THEN 80
    ELSE 30

EmbedSim(type, x, y) ==
    IF type = "principle" THEN PrincipleSim(x, y) ELSE ArticleSim(x, y)

----------------------------------------------------------------------------
\* The graph: networkx.Graph.  nodes and data are parallel, in insertion
\* (iteration) order; an absent or empty text attribute is 0, an absent
\* number is "".

NoNode == <<"none", 0, 0>>

Attr(type, example, text, title, number, auto, created) ==
    [type |-> type, example |-> example, text |-> text, title |-> title,
     number |-> number, auto |-> auto, created |-> created]

EmptyGraph == [nodes |-> <<>>, data |-> <<>>, edges |-> {}]

HasNode(g, id) == \E i \in 1..Len(g.nodes) : g.nodes[i] = id

IndexOf(g, id) == CHOOSE i \in 1..Len(g.nodes) : g.nodes[i] = id

Data(g, id) == g.data[IndexOf(g, id)]

NodeSet(g) == {g.nodes[i] : i \in 1..Len(g.nodes)}

NodesOfType(g, type) == {g.nodes[i] : i \in {j \in 1..Len(g.nodes) : g.data[j].type = type}}

HasEdge(g, x, y) ==
    \E e \in g.edges : (e.a = x /\ e.b = y) \/ (e.a = y /\ e.b = x)

EdgeType(g, x, y) ==
    (CHOOSE e \in g.edges : (e.a = x /\ e.b = y) \/ (e.a = y /\ e.b = x)).type

Neighbors(g, x) ==
    {e.b : e \in {d \in g.edges : d.a = x}} \cup {e.a : e \in {d \in g.edges : d.b = x}}

ContentHash(content) == content

GenerateNodeId(content, type, now) ==
    <<type, ContentHash(content), now % TimeSuffixMod>>

\* _add_node: graph.add_node of an id already present updates its attributes
AddNode(g, content, type, now) ==
    LET id == GenerateNodeId(content, type, now)
        fresh == Attr(type,
                      IF type = "scenario" THEN content ELSE 0,
                      IF type = "principle" THEN content ELSE 0,
                      IF type = "article" THEN content ELSE 0,
                      "", TRUE, now)
    IN  IF HasNode(g, id)
        THEN LET i == IndexOf(g, id)
                 old == g.data[i]
                 upd == [old EXCEPT !.type = type, !.auto = TRUE, !.created = now,
                                    !.example = IF type = "scenario" THEN content ELSE @,
                                    !.text = IF type = "principle" THEN content ELSE @,
                                    !.title = IF type = "article" THEN content ELSE @]
             IN  [g |-> [g EXCEPT !.data[i] = upd], id |-> id]
        ELSE [g |-> [g EXCEPT !.nodes = Append(@, id), !.data = Append(@, fresh)],
              id |-> id]

AddEdgeIfMissing(g, x, y, t) ==
    IF HasEdge(g, x, y) THEN g
    ELSE [g EXCEPT !.edges = @ \cup {[a |-> x, b |-> y, type |-> t]}]

----------------------------------------------------------------------------
\* Exact article lookup.

\* re.search(r"Article\s*(\d+[A-Z]?)(?:\([^)]+\))*"): the number that follows
\* the leftmost "Article" that has a number right after it; "" when none.
FirstArticleNumber(s) ==
    LET I == {i \in 1..(Len(s) - 1) : s[i] = "Article" /\ IsNumber(s[i + 1])}
    IN  IF I = {} THEN "" ELSE s[Min(I) + 1]

\* Python's "title in norm_title": t occurs in s
Contains(t, s) ==
    \E k \in 0..(Len(s) - Len(t)) : \A j \in 1..Len(t) : s[k + j] = t[j]

FindArticleByNumberOrTitle(g, s) ==
    LET num == FirstArticleNumber(s)
        byNum == {i \in 1..Len(g.nodes) :
                     /\ num # ""
                     /\ g.data[i].type = "article"
                     /\ g.data[i].number = num}
        byTitle == {i \in 1..Len(g.nodes) :
                     /\ g.data[i].type = "article"
                     /\ g.data[i].title # 0
                     /\ Contains(Str[g.data[i].title], s)}
    IN  IF byNum # {} THEN g.nodes[Min(byNum)]
        ELSE IF byTitle # {} THEN g.nodes[Min(byTitle)]
        ELSE NoNode

----------------------------------------------------------------------------
\* The FAISS indexes.  rows[i] is the text whose embedding is row i.

EmptyIndex == [rows |-> <<>>, ids |-> <<>>, texts |-> <<>>]

NoFile == [exists |-> FALSE, rows |-> <<>>]

\* IndexFlatIP.search: the k best rows, best first
RECURSIVE TopRows(_, _, _, _, _)
TopRows(type, rows, text, left, k) ==
    IF k = 0 \/ left = {} THEN <<>>
    ELSE LET best == CHOOSE i \in left : \A j \in left :
                        \/ EmbedSim(type, text, rows[i]) > EmbedSim(type, text, rows[j])
                        \/ /\ EmbedSim(type, text, rows[i]) = EmbedSim(type, text, rows[j])
                           /\ i <= j
         IN  <<best>> \o TopRows(type, rows, text, left \ {best}, k - 1)

\* the loops of _semantic_search over the rows FAISS returned.  FAISS pads
\* a result shorter than top_k with row -1, which Python reads as the last
\* element of node_ids, or fails to read when node_ids is empty; a row
\* beyond node_ids fails as well.
SearchResult(idx, text, type, thr, hits) ==
    IF \/ \E i \in 1..Len(hits) : hits[i] > Len(idx.ids)
       \/ Len(hits) < TopK /\ Len(idx.ids) = 0
    THEN [err |-> TRUE, id |-> NoNode]
    ELSE IF \A i \in 1..Len(hits) : EmbedSim(type, text, idx.rows[hits[i]]) < thr
    THEN [err |-> FALSE, id |-> NoNode]
    ELSE [err |-> FALSE,
          id |-> idx.ids[hits[Min({i \in 1..Len(hits) :
                                     EmbedSim(type, text, idx.rows[hits[i]]) >= thr})]]]

SemanticSearch(idx, text, type, thr) ==
    SearchResult(idx, text, type, thr,
                 TopRows(type, idx.rows, text, 1..Len(idx.rows), TopK))

\* the nodes of a type that carry a text, in graph order
ScanIds(g, type) ==
    SelectSeq(g.nodes, LAMBDA id : Data(g, id).type = type /\ Data(g, id).text # 0)

ScanTexts(g, type) ==
    LET ids == ScanIds(g, type)
    IN  [i \in 1..Len(ids) |-> Data(g, ids[i]).text]

\* one index of _build_or_load_faiss
BuildOrLoadOne(g, type, file) ==
    LET ids == ScanIds(g, type)
        texts == ScanTexts(g, type)
    IN  IF file.exists
        THEN [idx |-> [rows |-> file.rows, ids |-> ids, texts |-> texts], file |-> file]
        ELSE IF Len(texts) > 0
        THEN [idx |-> [rows |-> texts, ids |-> ids, texts |-> texts],
              file |-> [exists |-> TRUE, rows |-> texts]]
        ELSE [idx |-> EmptyIndex, file |-> file]

\* one index of _update_faiss_after_new_nodes
UpdateOne(g, type, idx, file) ==
    LET ids == ScanIds(g, type)
        texts == ScanTexts(g, type)
    IN  IF Len(texts) > 0
        THEN [idx |-> [rows |-> texts, ids |-> ids, texts |-> texts],
              file |-> [exists |-> TRUE, rows |-> texts]]
        ELSE [idx |-> [idx EXCEPT !.rows = <<>>], file |-> file]

----------------------------------------------------------------------------
\* SemanticMatcher.

PrepareScenarioEmbeddings(g) ==
    LET ids == SelectSeq(g.nodes, LAMBDA id : Data(g, id).type = "scenario")
    IN  [nodes |-> ids,
         emb |-> [i \in 1..Len(ids) |->
                     IF Data(g, ids[i]).example # 0
                     THEN Data(g, ids[i]).example ELSE IdText]]

NoMatch == [found |-> FALSE, id |-> NoNode, score |-> 0]

\* find_matching_scenario: the threshold argument is reassigned on entry
FindMatchingScenario(m, query, thr) ==
    LET used == HardThreshold
        n == Len(m.nodes)
        best == CHOOSE i \in 1..n : \A j \in 1..n :
                    \/ MatcherSim(query, m.emb[i]) > MatcherSim(query, m.emb[j])
                    \/ /\ MatcherSim(query, m.emb[i]) = MatcherSim(query, m.emb[j])
                       /\ i <= j
    IN  IF query = 0 THEN NoMatch
        ELSE IF n = 0 THEN NoMatch
        ELSE IF MatcherSim(query, m.emb[best]) >= used
        THEN [found |-> TRUE, id |-> m.nodes[best],
              score |-> MatcherSim(query, m.emb[best])]
        ELSE NoMatch

----------------------------------------------------------------------------
\* GraphTraversal.expand_context and AnswerSimplifier.simplify_answer.

\* the article loop of expand_context without the test for duplicates
RECURSIVE CollectArticlesTwice(_, _, _, _)
CollectArticlesTwice(g, principles, i, acc) ==
    IF i > Len(principles) THEN acc
    ELSE LET found == SelectSeq(g.nodes, LAMBDA n :
                          /\ HasEdge(g, principles[i], n)
                          /\ EdgeType(g, principles[i], n) = "explains"
                          /\ Data(g, n).type = "article")
         IN  CollectArticlesTwice(g, principles, i + 1, acc \o found)

RECURSIVE CollectArticles(_, _, _, _)
CollectArticles(g, principles, i, acc) ==
    IF i > Len(principles) THEN acc
    ELSE LET found == SelectSeq(g.nodes, LAMBDA n :
                          /\ HasEdge(g, principles[i], n)
                          /\ EdgeType(g, principles[i], n) = "explains"
                          /\ Data(g, n).type = "article"
                          /\ \A k \in 1..Len(acc) : acc[k] # n)
         IN  CollectArticles(g, principles, i + 1, acc \o found)

ExpandContext(g, sid) ==
    IF ~HasNode(g, sid)
    THEN [err |-> TRUE, scenario |-> sid, principles |-> <<>>, articles |-> <<>>,
          titled |-> FALSE]
    ELSE LET principles == SelectSeq(g.nodes, LAMBDA n :
                               /\ HasEdge(g, sid, n)
                               /\ EdgeType(g, sid, n) = "supports"
                               /\ Data(g, n).type = "principle")
             articles == CollectArticles(g, principles, 1, <<>>)
         IN  [err |-> FALSE, scenario |-> sid, principles |-> principles,
              articles |-> articles,
              titled |-> \E k \in 1..Len(articles) : Data(g, articles[k]).title # 0]

\* the template chosen: _format_principles never returns an empty string
SimplifyAnswer(ctx) ==
    IF ctx.titled THEN "full_answer" ELSE "no_articles"

----------------------------------------------------------------------------
\* The LLM.  An outcome is what the chat-completion call does: it raises,
\* returns text that json.loads rejects, returns "{}", or returns an object.
\* scenario = 0: the object has no scenario.example (the query is used).

Response(scenario, principles, articles, links) ==
    [kind |-> "json", scenario |-> scenario, principles |-> principles,
     articles |-> articles, links |-> links]

Failure(kind) ==
    [kind |-> kind, scenario |-> 0, principles |-> <<>>, articles |-> <<>>,
     links |-> <<>>]

NoOutcome == Failure("none")

LLMOutcomes ==
    { Failure("raise"), Failure("nojson"), Failure("empty"),
      Response(0, <<2, 3>>, <<3>>, <<1, 2>>),
      Response(5, <<4, 5>>, <<5>>, <<2>>),
      Response(0, <<>>, <<>>, <<>>),
      Response(0, <<1>>, <<7>>, <<>>),
      Response(1, <<4>>, <<>>, <<3>>) }

\* _call_llm: None on any exception, else the decoded object
CallLLM(out) ==
    IF out.kind = "json" THEN [none |-> FALSE, empty |-> FALSE, data |-> out]
    ELSE IF out.kind = "empty" THEN [none |-> FALSE, empty |-> TRUE, data |-> out]
    ELSE [none |-> TRUE, empty |-> FALSE, data |-> out]

\* re.findall(r'\b\d+(?:\(\w+\))*', articlestring)
LinkNumbers(s) == SelectSeq(s, IsNumber)

\* the links of a new principle added with the edge type of the scenario link
RECURSIVE LinkArticlesAsSupports(_, _, _, _)
LinkArticlesAsSupports(g, pid, nums, i) ==
    IF i > Len(nums) THEN g
    ELSE LET aid == FindArticleByNumberOrTitle(g, <<"Article", nums[i]>>)
         IN  LinkArticlesAsSupports(IF aid # NoNode
                                    THEN AddEdgeIfMissing(g, pid, aid, "supports")
                                    ELSE g,
                                    pid, nums, i + 1)

RECURSIVE LinkArticles(_, _, _, _)
LinkArticles(g, pid, nums, i) ==
    IF i > Len(nums) THEN g
    ELSE LET aid == FindArticleByNumberOrTitle(g, <<"Article", nums[i]>>)
         IN  LinkArticles(IF aid # NoNode
                          THEN AddEdgeIfMissing(g, pid, aid, "explains")
                          ELSE g,
                          pid, nums, i + 1)

LoopStart(g) ==
    [g |-> g, n |-> 0, ids |-> <<>>, new |-> <<>>, how |-> <<>>, err |-> FALSE]

\* lines 366-382: a principle with no match becomes a node, linked to the
\* articles of links[p]
NewPrinciple(st, an, sid, links) ==
    [g |-> AddEdgeIfMissing(
              LinkArticles(an.g, an.id,
                           LinkNumbers(IF st.n < Len(links)
                                       THEN LinkStr[links[st.n + 1]] ELSE <<>>), 1),
              sid, an.id, "supports"),
     n |-> st.n + 1,
     ids |-> Append(st.ids, an.id),
     new |-> Append(st.new, an.id),
     how |-> Append(st.how, "new"),
     err |-> FALSE]

\* a matched principle linked from the links entry like a new one
PrincipleMatchedRelinked(st, text, sid, links, now, srch) ==
    IF srch.err THEN [st EXCEPT !.err = TRUE]
    ELSE IF srch.id # NoNode
    THEN [st EXCEPT !.ids = Append(@, srch.id),
                    !.how = Append(@, "semantic"),
                    !.g = AddEdgeIfMissing(
                             LinkArticles(@, srch.id,
                                          LinkNumbers(IF st.n < Len(links)
                                                      THEN LinkStr[links[st.n + 1]]
                                                      ELSE <<>>), 1),
                             sid, srch.id, "supports")]
    ELSE NewPrinciple(st, AddNode(st.g, text, "principle", now), sid, links)

\* lines 363-384, srch being what _semantic_search returned or raised
PrincipleMatched(st, text, sid, links, now, srch) ==
    IF srch.err THEN [st EXCEPT !.err = TRUE]
    ELSE IF srch.id # NoNode
    THEN [st EXCEPT !.ids = Append(@, srch.id),
                    !.how = Append(@, "semantic"),
                    !.g = AddEdgeIfMissing(@, sid, srch.id, "supports")]
    ELSE NewPrinciple(st, AddNode(st.g, text, "principle", now), sid, links)

\* one pass of the loop over llm_data["principles"]
PrincipleStep(st, text, sid, links, idx, now) ==
    PrincipleMatched(st, text, sid, links, now,
                     SemanticSearch(idx, text, "principle", PrincipleThreshold))

RECURSIVE PrincipleLoop(_, _, _, _, _, _, _)
PrincipleLoop(st, items, i, sid, links, idx, now) ==
    IF i > Len(items) \/ st.err THEN st
    ELSE PrincipleLoop(PrincipleStep(st, items[i], sid, links, idx, now),
                       items, i + 1, sid, links, idx, now)

\* lines 399-401
NewArticle(st, an) ==
    [g |-> an.g, n |-> st.n + 1, ids |-> Append(st.ids, an.id),
     new |-> Append(st.new, an.id), how |-> Append(st.how, "new"), err |-> FALSE]

\* lines 392-402, srch being what _semantic_search returned or raised
ArticleSearched(st, text, now, srch) ==
    IF srch.err THEN [st EXCEPT !.err = TRUE]
    ELSE IF srch.id # NoNode
    THEN [st EXCEPT !.ids = Append(@, srch.id), !.how = Append(@, "semantic")]
    ELSE NewArticle(st, AddNode(st.g, text, "article", now))

\* the article loop with semantic search consulted before the exact lookup
ArticleResolvedSemanticFirst(st, text, idx, now, exact) ==
    IF Len(idx.ids) > 0
       /\ SemanticSearch(idx, text, "article", ArticleThreshold).id # NoNode
    THEN ArticleSearched(st, text, now,
                         SemanticSearch(idx, text, "article", ArticleThreshold))
    ELSE IF exact # NoNode
    THEN [st EXCEPT !.ids = Append(@, exact), !.how = Append(@, "exact")]
    ELSE ArticleSearched(st, text, now,
                         SemanticSearch(idx, text, "article", ArticleThreshold))

\* lines 390-402, exact being what _find_article_by_number_or_title returned
ArticleResolved(st, text, idx, now, exact) ==
    IF exact # NoNode
    THEN [st EXCEPT !.ids = Append(@, exact), !.how = Append(@, "exact")]
    ELSE ArticleSearched(st, text, now,
                         SemanticSearch(idx, text, "article", ArticleThreshold))

\* one pass of the loop over llm_data["articles"]
ArticleStep(st, text, idx, now) ==
    ArticleResolved(st, text, idx, now, FindArticleByNumberOrTitle(st.g, Str[text]))

RECURSIVE ArticleLoop(_, _, _, _, _)
ArticleLoop(st, items, i, idx, now) ==
    IF i > Len(items) \/ st.err THEN st
    ELSE ArticleLoop(ArticleStep(st, items[i], idx, now), items, i + 1, idx, now)

\* What generate_and_insert leaves and returns.  raised: an exception left
\* the function; g, pidx, aidx, pfile, afile: the state it leaves; how: the
\* way each article of the response was resolved.
Outcome(g, pi, ai, pfile, afile, sid, raised, success, error) ==
    [g |-> g, pidx |-> pi, aidx |-> ai, pfile |-> pfile, afile |-> afile,
     scenario |-> sid, principles |-> <<>>, articles |-> <<>>,
     newp |-> <<>>, newa |-> <<>>, how |-> <<>>,
     raised |-> raised, success |-> success, error |-> error]

\* lines 404-414
Reindexed(sid, ps, as, up, ua) ==
    [Outcome(as.g, up.idx, ua.idx, up.file, ua.file, sid, FALSE, TRUE, "")
        EXCEPT !.principles = ps.ids, !.articles = as.ids,
               !.newp = ps.new, !.newa = as.new, !.how = as.how]

\* lines 386-414, as being the state after the loop over the articles
AfterArticles(pi, ai, dsk, sid, ps, as) ==
    IF as.err
    THEN Outcome(as.g, pi, ai, dsk.pfile, dsk.afile, sid, TRUE, FALSE, "IndexError")
    ELSE Reindexed(sid, ps, as,
                   UpdateOne(as.g, "principle", pi, dsk.pfile),
                   UpdateOne(as.g, "article", ai, dsk.afile))

\* lines 360-414, ps being the state after the loop over the principles
AfterPrinciples(pi, ai, dsk, data, sid, ps, now) ==
    IF ps.err
    THEN Outcome(ps.g, pi, ai, dsk.pfile, dsk.afile, sid, TRUE, FALSE, "IndexError")
    ELSE AfterArticles(pi, ai, dsk, sid, ps,
                       ArticleLoop(LoopStart(ps.g), data.articles, 1, ai, now))

\* lines 355-414, sc being the scenario node just added
AfterScenario(pi, ai, dsk, data, sc, now) ==
    AfterPrinciples(pi, ai, dsk, data, sc.id,
                    PrincipleLoop(LoopStart(sc.g), data.principles, 1, sc.id,
                                  data.links, pi, now),
                    now)

\* generate_and_insert testing "llm_data is None" in place of "not llm_data"
AfterLLMNoneOnly(g, pi, ai, dsk, query, llm, now) ==
    IF llm.none
    THEN Outcome(g, pi, ai, dsk.pfile, dsk.afile, NoNode, FALSE, FALSE, "LLM failed.")
    ELSE AfterScenario(pi, ai, dsk, llm.data,
                       AddNode(g, IF llm.data.scenario # 0
                                  THEN llm.data.scenario ELSE query,
                               "scenario", now),
                       now)

\* lines 350-354, llm being what _call_llm returned
AfterLLM(g, pi, ai, dsk, query, llm, now) ==
    IF llm.none \/ llm.empty
    THEN Outcome(g, pi, ai, dsk.pfile, dsk.afile, NoNode, FALSE, FALSE, "LLM failed.")
    ELSE AfterScenario(pi, ai, dsk, llm.data,
                       AddNode(g, IF llm.data.scenario # 0
                                  THEN llm.data.scenario ELSE query,
                               "scenario", now),
                       now)

\* generate_and_insert on the AutoLinker's graph g
GenerateAndInsert(g, pi, ai, dsk, query, out, now) ==
    AfterLLM(g, pi, ai, dsk, query, CallLLM(out), now)

----------------------------------------------------------------------------
\* Tool 1: LLMClient.generate_response.  An Optional[int] argument is a
\* sequence of at most one integer; retries is the Config.MAX_RETRIES the
\* client was constructed with.

NotGiven == <<>>

Given(n) == <<n>>

\* no call under way
NoClient ==
    [pc |-> "idle", retries |-> 0, prompt |-> 0, arg |-> NotGiven, max |-> 0,
     attempt |-> 0, made |-> 0, slept |-> 0, result |-> "", failed |-> 0]

\* max_retries = max_retries or self.config.MAX_RETRIES: None and 0 are
\* both falsy
RetriesOr(arg, retries) ==
    IF arg = NotGiven \/ arg[1] = 0 THEN retries ELSE arg[1]

----------------------------------------------------------------------------
\* The graphs a LawReader starts from (the offline-built graph file).

S1 == <<"scenario", 101, -1>>
P1 == <<"principle", 101, -1>>
A19 == <<"article", 119, -1>>
A21 == <<"article", 121, -1>>

SeedGraph ==
    [nodes |-> <<S1, P1, A19, A21>>,
     data |-> << Attr("scenario", 1, 0, 0, "", FALSE, 0),
                 Attr("principle", 0, 1, 0, "", FALSE, 0),
                 Attr("article", 0, 1, 1, "19", FALSE, 0),
                 Attr("article", 0, 2, 2, "21", FALSE, 0) >>,
     edges |-> {[a |-> S1, b |-> P1, type |-> "supports"],
                [a |-> P1, b |-> A19, type |-> "explains"]}]

InitGraphs == {EmptyGraph, SeedGraph}

Thresholds == {DefaultThreshold}

Queries == {1, 2, 3}

----------------------------------------------------------------------------
\* LawReader.process_query.

NoCall ==
    [n |-> 0, query |-> 0, force |-> FALSE, matched |-> FALSE, matchId |-> NoNode,
     score |-> 0, out |-> NoOutcome, llmCalls |-> 0, gi |-> "none", giError |-> "",
     scenario |-> NoNode, principles |-> <<>>, articles |-> <<>>,
     newp |-> <<>>, newa |-> <<>>, how |-> <<>>, method |-> "", success |-> FALSE,
     answer |-> "", ctxP |-> <<>>, ctxA |-> <<>>, calls |-> <<>>,
     saved |-> FALSE, refreshed |-> FALSE, escaped |-> FALSE]

\* no other process, no shared file
NoProcs == <<>>

NoFiles == [present |-> FALSE, graph |-> [g |-> EmptyGraph, intact |-> TRUE],
            pfile |-> NoFile, afile |-> NoFile, locks |-> {}, writers |-> {},
            last |-> 0]

NoProbe == [op |-> "none", s |-> 0, x |-> NoNode, y |-> NoNode, t |-> "",
            n |-> 0, r |-> NoNode, at |-> 0]

\* the result as process_query starts to fill it, m being what
\* find_matching_scenario returned when it was called
Called(query, force, m) ==
    [NoCall EXCEPT !.n = nq + 1, !.query = query, !.force = force,
                   !.matched = ~force /\ m.found,
                   !.matchId = IF ~force /\ m.found THEN m.id ELSE NoNode,
                   !.score = IF ~force /\ m.found THEN m.score ELSE 0]

\* the graph_match branch handing the auto-linker's graph to the matcher and
\* the traversal, as the llm_generation branch does
MatchedPropagating(base, ctx) ==
    /\ last' = IF ctx.err
               THEN [base EXCEPT !.answer = "System error",
                                 !.calls = <<"match", "expand">>]
               ELSE [base EXCEPT !.method = "graph_match", !.success = TRUE,
                                 !.answer = SimplifyAnswer(ctx),
                                 !.ctxP = ctx.principles, !.ctxA = ctx.articles,
                                 !.calls = <<"match", "expand", "simplify">>]
    /\ mref' = aref
    /\ tref' = aref
    /\ UNCHANGED <<graphs, aref, matcher, pidx, aidx, disk>>

\* lines 97-114 and the except clause, ctx being what expand_context
\* returned or raised
Matched(base, ctx) ==
    /\ last' = IF ctx.err
               THEN [base EXCEPT !.answer = "System error",
                                 !.calls = <<"match", "expand">>]
               ELSE [base EXCEPT !.method = "graph_match", !.success = TRUE,
                                 !.answer = SimplifyAnswer(ctx),
                                 !.ctxP = ctx.principles, !.ctxA = ctx.articles,
                                 !.calls = <<"match", "expand", "simplify">>]
    /\ UNCHANGED <<graphs, mref, tref, aref, matcher, pidx, aidx, disk>>

\* the graph_match branch (lines 92-114)
GraphMatch(query, force, m) ==
    Matched(Called(query, force, m), ExpandContext(graphs[tref], m.id))

Generated(base, gi, out) ==
    [base EXCEPT !.out = out, !.llmCalls = 1, !.giError = gi.error,
                 !.scenario = gi.scenario, !.principles = gi.principles,
                 !.articles = gi.articles, !.newp = gi.newp, !.newa = gi.newa,
                 !.how = gi.how]

\* process_query answering without the context of the new scenario
AnsweredNoContext(base, pre, ctx) ==
    [base EXCEPT !.gi = "success", !.method = "llm_generation",
                 !.success = TRUE, !.answer = "no_articles",
                 !.saved = TRUE, !.refreshed = TRUE,
                 !.calls = pre \o <<"generate", "save", "refresh", "simplify">>]

\* lines 146-162 and the except clause, ctx being what expand_context
\* returned or raised
Answered(base, pre, ctx) ==
    IF ctx.err
    THEN [base EXCEPT !.gi = "success", !.answer = "System error",
                      !.saved = TRUE, !.refreshed = TRUE,
                      !.calls = pre \o <<"generate", "save", "refresh", "expand">>]
    ELSE [base EXCEPT !.gi = "success", !.method = "llm_generation",
                      !.success = TRUE, !.answer = SimplifyAnswer(ctx),
                      !.ctxP = ctx.principles, !.ctxA = ctx.articles,
                      !.saved = TRUE, !.refreshed = TRUE,
                      !.calls = pre \o <<"generate", "save", "refresh", "expand",
                                         "simplify">>]

\* process_query without lines 136-138: the matcher and the traversal keep
\* the graph objects they loaded
InsertedNoPropagation(base, pre, gi) ==
    /\ graphs' = [graphs EXCEPT ![aref] = gi.g]
    /\ pidx' = gi.pidx
    /\ aidx' = gi.aidx
    /\ aref' = aref
    /\ IF gi.raised
       THEN /\ last' = [base EXCEPT !.gi = "raised", !.answer = "System error",
                                    !.calls = pre \o <<"generate">>]
            /\ disk' = [disk EXCEPT !.pfile = gi.pfile, !.afile = gi.afile]
            /\ UNCHANGED <<mref, tref, matcher>>
       ELSE IF ~gi.success
       THEN /\ last' = [base EXCEPT !.gi = "failed", !.method = "llm_generation",
                                    !.answer = "Unable to process",
                                    !.calls = pre \o <<"generate">>]
            /\ disk' = [disk EXCEPT !.pfile = gi.pfile, !.afile = gi.afile]
            /\ UNCHANGED <<mref, tref, matcher>>
       ELSE /\ mref' = mref
            /\ tref' = tref
            /\ disk' = [graph |-> gi.g, pfile |-> gi.pfile, afile |-> gi.afile]
            /\ matcher' = PrepareScenarioEmbeddings(graphs[mref])
            /\ last' = Answered(base, pre, ExpandContext(graphs[tref], gi.scenario))

\* process_query without the except clause around generate_and_insert
InsertedUncaught(base, pre, gi) ==
    /\ graphs' = [graphs EXCEPT ![aref] = gi.g]
    /\ pidx' = gi.pidx
    /\ aidx' = gi.aidx
    /\ aref' = aref
    /\ IF gi.raised
       THEN /\ last' = [base EXCEPT !.gi = "raised", !.escaped = TRUE,
                                    !.calls = pre \o <<"generate">>]
            /\ disk' = [disk EXCEPT !.pfile = gi.pfile, !.afile = gi.afile]
            /\ UNCHANGED <<mref, tref, matcher>>
       ELSE IF ~gi.success
       THEN /\ last' = [base EXCEPT !.gi = "failed", !.method = "llm_generation",
                                    !.answer = "Unable to process",
                                    !.calls = pre \o <<"generate">>]
            /\ disk' = [disk EXCEPT !.pfile = gi.pfile, !.afile = gi.afile]
            /\ UNCHANGED <<mref, tref, matcher>>
       ELSE /\ mref' = aref
            /\ tref' = aref
            /\ disk' = [graph |-> gi.g, pfile |-> gi.pfile, afile |-> gi.afile]
            /\ matcher' = PrepareScenarioEmbeddings(gi.g)
            /\ last' = Answered(base, pre, ExpandContext(gi.g, gi.scenario))

\* lines 132-170 and the except clause, gi being what generate_and_insert
\* returned or raised
Inserted(base, pre, gi) ==
    /\ graphs' = [graphs EXCEPT ![aref] = gi.g]
    /\ pidx' = gi.pidx
    /\ aidx' = gi.aidx
    /\ aref' = aref
    /\ IF gi.raised
       THEN /\ last' = [base EXCEPT !.gi = "raised", !.answer = "System error",
                                    !.calls = pre \o <<"generate">>]
            /\ disk' = [disk EXCEPT !.pfile = gi.pfile, !.afile = gi.afile]
            /\ UNCHANGED <<mref, tref, matcher>>
       ELSE IF ~gi.success
       THEN /\ last' = [base EXCEPT !.gi = "failed", !.method = "llm_generation",
                                    !.answer = "Unable to process",
                                    !.calls = pre \o <<"generate">>]
            /\ disk' = [disk EXCEPT !.pfile = gi.pfile, !.afile = gi.afile]
            /\ UNCHANGED <<mref, tref, matcher>>
       ELSE /\ mref' = aref
            /\ tref' = aref
            /\ disk' = [graph |-> gi.g, pfile |-> gi.pfile, afile |-> gi.afile]
            /\ matcher' = PrepareScenarioEmbeddings(gi.g)
            /\ last' = Answered(base, pre, ExpandContext(gi.g, gi.scenario))

LLMStep(query, force, out, m, gi) ==
    Inserted(Generated(Called(query, force, m), gi, out),
             IF force THEN <<>> ELSE <<"match", "top_matches">>, gi)

\* the llm_generation branch (lines 128-170)
LLMGeneration(query, force, out, m) ==
    LLMStep(query, force, out, m,
            GenerateAndInsert(graphs[aref], pidx, aidx, disk, query, out, clock))

\* process_query without the early return of the graph_match branch
DispatchFallThrough(query, force, out, m) ==
    /\ out \in LLMOutcomes
    /\ LLMGeneration(query, force, out, m)

\* lines 86-91 and 116-126, m being what find_matching_scenario returned
Dispatch(query, force, out, m) ==
    IF ~force /\ m.found
    THEN /\ out = NoOutcome
         /\ GraphMatch(query, force, m)
    ELSE /\ out \in LLMOutcomes
         /\ LLMGeneration(query, force, out, m)

ProcessQuery(query, force, out) ==
    /\ nq < MaxQueries
    /\ nq' = nq + 1
    /\ Dispatch(query, force, out, FindMatchingScenario(matcher, query, threshold))
    /\ UNCHANGED <<threshold, clock, ticks, probe, procs, fs, client>>

\* time passes between two calls
Tick ==
    /\ ticks < MaxTicks
    /\ \E d \in {1, TimeSuffixMod} : clock' = clock + d
    /\ ticks' = ticks + 1
    /\ UNCHANGED <<graphs, mref, tref, aref, matcher, pidx, aidx, disk, threshold,
                   nq, last, probe, procs, fs, client>>

\* LawReader.__init__ on a graph file g with no index file beside it
Constructed(g, th) ==
    LET bp == BuildOrLoadOne(g, "principle", NoFile)
        ba == BuildOrLoadOne(g, "article", NoFile)
    IN  /\ graphs = [h \in 1..3 |-> g]
        /\ mref = 1
        /\ tref = 2
        /\ aref = 3
        /\ matcher = PrepareScenarioEmbeddings(g)
        /\ pidx = bp.idx
        /\ aidx = ba.idx
        /\ disk = [graph |-> g, pfile |-> bp.file, afile |-> ba.file]
        /\ threshold = th
        /\ clock = BaseTime
        /\ ticks = 0
        /\ nq = 0
        /\ last = NoCall

Init ==
    /\ \E g \in InitGraphs : \E th \in Thresholds : Constructed(g, th)
    /\ probe = NoProbe
    /\ procs = NoProcs
    /\ fs = NoFiles
    /\ client = NoClient

Query ==
    \E query \in Queries : \E force \in BOOLEAN :
        \E out \in LLMOutcomes \cup {NoOutcome} : ProcessQuery(query, force, out)

Next == Query \/ Tick

Spec == Init /\ [][Next]_vars

----------------------------------------------------------------------------
\* AutoLinker._add_edge_if_missing called twice in a row on the AutoLinker's
\* graph, from the seed graph and from the graph one generate_and_insert
\* leaves behind.

EdgeTypes == {"supports", "explains"}

LinkedGraph ==
    GenerateAndInsert(SeedGraph,
                      BuildOrLoadOne(SeedGraph, "principle", NoFile).idx,
                      BuildOrLoadOne(SeedGraph, "article", NoFile).idx,
                      [graph |-> SeedGraph,
                       pfile |-> BuildOrLoadOne(SeedGraph, "principle", NoFile).file,
                       afile |-> BuildOrLoadOne(SeedGraph, "article", NoFile).file],
                      3, Response(5, <<4, 5>>, <<5>>, <<2>>), BaseTime).g

EdgeGraphs == {SeedGraph, LinkedGraph}

InitEdge ==
    /\ \E g \in EdgeGraphs : \E th \in Thresholds : Constructed(g, th)
    /\ probe = NoProbe
    /\ procs = NoProcs
    /\ fs = NoFiles
    /\ client = NoClient

\* the first call _add_edge_if_missing(x, y, t)
AddEdgeFirst(x, y, t) ==
    /\ probe.op = "none"
    /\ graphs' = [graphs EXCEPT ![aref] = AddEdgeIfMissing(graphs[aref], x, y, t)]
    /\ probe' = [NoProbe EXCEPT !.op = "edge", !.x = x, !.y = y, !.t = t, !.n = 1]
    /\ UNCHANGED <<mref, tref, aref, matcher, pidx, aidx, disk, threshold, clock,
                   ticks, nq, last, procs, fs, client>>

\* the same call made again
AddEdgeAgain ==
    /\ probe.op = "edge"
    /\ probe.n = 1
    /\ graphs' = [graphs EXCEPT ![aref] =
                     AddEdgeIfMissing(graphs[aref], probe.x, probe.y, probe.t)]
    /\ probe' = [probe EXCEPT !.n = 2]
    /\ UNCHANGED <<mref, tref, aref, matcher, pidx, aidx, disk, threshold, clock,
                   ticks, nq, last, procs, fs, client>>

AddEdge ==
    \E x \in NodeSet(graphs[aref]) : \E y \in NodeSet(graphs[aref]) :
        \E t \in EdgeTypes : AddEdgeFirst(x, y, t)

NextEdge == AddEdge \/ AddEdgeAgain

SpecEdge == InitEdge /\ [][NextEdge]_vars

----------------------------------------------------------------------------
\* AutoLinker._add_node called directly, time passing between the calls.

NodeContents == {1, 2}

NodeTypes == {"scenario", "principle", "article"}

\* the graph and the call record after _add_node returned an
AddedNode(content, type, an) ==
    /\ graphs' = [graphs EXCEPT ![aref] = an.g]
    /\ probe' = [NoProbe EXCEPT !.op = "node", !.s = content, !.t = type,
                                !.n = probe.n + 1, !.r = an.id, !.at = clock]

AddNodeCall(content, type) ==
    /\ probe.op \in {"none", "node"}
    /\ probe.n < MaxAdds
    /\ AddedNode(content, type, AddNode(graphs[aref], content, type, clock))
    /\ UNCHANGED <<mref, tref, aref, matcher, pidx, aidx, disk, threshold, clock,
                   ticks, nq, last, procs, fs, client>>

AddNodeAny ==
    \E content \in NodeContents : \E type \in NodeTypes : AddNodeCall(content, type)

NextNode == AddNodeAny \/ Tick

SpecNode == Init /\ [][NextNode]_vars

----------------------------------------------------------------------------
\* Several LawReader processes (the backend starts one per question) that
\* share the graph file and the two index files.  Each is constructed from
\* the files, runs one generate_and_insert and, when it succeeded, saves its
\* graph under the file lock of its AutoLinker.  A write of the graph file
\* takes two steps, the open that truncates the file and the end of the dump;
\* two writes that overlap leave either the bytes of the one that ended last
\* or a mixture no reader can decode.

Procs == {1, 2}

\* the graph_path argument a LawReader is constructed with
GraphArgs == {"law_graphTest.gpickle", "law_graphfinal.gpickle"}

\* AutoLinker.__init__: self.graph_lock_path = f"{graph_path}.lock"
LockPathOf(arg) == <<arg, ".lock">>

\* what the LLM answers to the question of a process
ProcQuery == 3

ProcOutcomes ==
    { Failure("empty"),
      Response(5, <<4, 5>>, <<5>>, <<2>>),
      Response(1, <<4>>, <<>>, <<3>>) }

\* missing: the graph file did not exist when the process was constructed
NewProc ==
    [pc |-> "new", arg |-> "", missing |-> FALSE, base |-> EmptyGraph,
     g |-> EmptyGraph, pidx |-> EmptyIndex, aidx |-> EmptyIndex, over |-> FALSE,
     saved |-> FALSE]

SeedFiles ==
    [present |-> TRUE, graph |-> [g |-> SeedGraph, intact |-> TRUE],
     pfile |-> NoFile, afile |-> NoFile, locks |-> {}, writers |-> {}, last |-> 0]

InitProcs ==
    /\ \E th \in Thresholds : Constructed(SeedGraph, th)
    /\ probe = NoProbe
    /\ procs = [p \in Procs |-> NewProc]
    /\ fs \in {SeedFiles, NoFiles}
    /\ client = NoClient

\* a _load_graph with the fallback of the AutoLinker in the matcher and the
\* traversal
LoadGraphLenient(f) ==
    IF ~f.present THEN [err |-> FALSE, g |-> EmptyGraph]
    ELSE IF ~f.graph.intact THEN [err |-> TRUE, g |-> EmptyGraph]
    ELSE [err |-> FALSE, g |-> f.graph.g]

\* SemanticMatcher._load_graph and GraphTraversal._load_graph: FileNotFoundError
\* when the file does not exist; read_gpickle fails on a file that is being
\* written
LoadGraphStrict(f) ==
    IF ~f.present \/ ~f.graph.intact THEN [err |-> TRUE, g |-> EmptyGraph]
    ELSE [err |-> FALSE, g |-> f.graph.g]

\* AutoLinker._load_graph: an empty nx.Graph() when the file does not exist
LoadGraphOrEmpty(f) ==
    IF ~f.present THEN [err |-> FALSE, g |-> EmptyGraph]
    ELSE IF ~f.graph.intact THEN [err |-> TRUE, g |-> EmptyGraph]
    ELSE [err |-> FALSE, g |-> f.graph.g]

\* the state of a process whose three components loaded the graph file, g
\* being the graph of its AutoLinker, bp and ba what _build_or_load_faiss
\* made of the two index files
Loaded(p, arg, g, bp, ba) ==
    /\ procs' = [procs EXCEPT ![p] =
                    [NewProc EXCEPT !.pc = "ready", !.arg = arg,
                                    !.missing = ~fs.present,
                                    !.base = g, !.g = g,
                                    !.pidx = bp.idx, !.aidx = ba.idx]]
    /\ fs' = [fs EXCEPT !.pfile = bp.file, !.afile = ba.file]

\* lines 52-60 of LawReader.__init__, m, t and a being what the _load_graph
\* of the matcher, of the traversal and of the auto-linker returned or raised
Components(p, arg, m, t, a) ==
    IF m.err \/ t.err \/ a.err
    THEN /\ procs' = [procs EXCEPT ![p].pc = "crashed", ![p].arg = arg,
                                   ![p].missing = ~fs.present]
         /\ fs' = fs
    ELSE Loaded(p, arg, a.g,
                BuildOrLoadOne(a.g, "principle", fs.pfile),
                BuildOrLoadOne(a.g, "article", fs.afile))

\* LawReader.__init__
Start(p, arg) ==
    /\ procs[p].pc = "new"
    /\ Components(p, arg, LoadGraphStrict(fs), LoadGraphStrict(fs),
                  LoadGraphOrEmpty(fs))
    /\ UNCHANGED <<graphs, mref, tref, aref, matcher, pidx, aidx, disk, threshold,
                   clock, ticks, nq, last, probe, client>>

\* lines 131-138 of process_query, gi being what generate_and_insert returned
\* or raised
Linked(p, gi) ==
    /\ procs' = [procs EXCEPT ![p].g = gi.g, ![p].pidx = gi.pidx,
                              ![p].aidx = gi.aidx,
                              ![p].pc = IF gi.raised \/ ~gi.success
                                        THEN "done" ELSE "linked"]
    /\ fs' = [fs EXCEPT !.pfile = gi.pfile, !.afile = gi.afile]

Link(p, out) ==
    /\ procs[p].pc = "ready"
    /\ Linked(p, GenerateAndInsert(procs[p].g, procs[p].pidx, procs[p].aidx,
                                   [graph |-> fs.graph.g, pfile |-> fs.pfile,
                                    afile |-> fs.afile],
                                   ProcQuery, out, clock))
    /\ UNCHANGED <<graphs, mref, tref, aref, matcher, pidx, aidx, disk, threshold,
                   clock, ticks, nq, last, probe, client>>

\* _save_graph: FileLock(self.graph_lock_path) entered
Acquire(p) ==
    /\ procs[p].pc = "linked"
    /\ LockPathOf(procs[p].arg) \notin fs.locks
    /\ fs' = [fs EXCEPT !.locks = @ \cup {LockPathOf(procs[p].arg)}]
    /\ procs' = [procs EXCEPT ![p].pc = "locked"]
    /\ UNCHANGED <<graphs, mref, tref, aref, matcher, pidx, aidx, disk, threshold,
                   clock, ticks, nq, last, probe, client>>

\* _save_graph: write_gpickle opens self.graph_path for writing
BeginWrite(p) ==
    /\ procs[p].pc = "locked"
    /\ fs' = [fs EXCEPT !.graph.intact = FALSE, !.writers = @ \cup {p}]
    /\ procs' = [q \in Procs |->
                    IF q = p
                    THEN [procs[q] EXCEPT !.pc = "writing", !.over = fs.writers # {}]
                    ELSE IF q \in fs.writers THEN [procs[q] EXCEPT !.over = TRUE]
                    ELSE procs[q]]
    /\ UNCHANGED <<graphs, mref, tref, aref, matcher, pidx, aidx, disk, threshold,
                   clock, ticks, nq, last, probe, client>>

\* _save_graph: the dump ends, the file is closed and the lock released
EndWrite(p, ok) ==
    /\ procs[p].pc = "writing"
    /\ ~procs[p].over => ok
    /\ fs' = [fs EXCEPT !.present = TRUE,
                        !.graph = [g |-> procs[p].g,
                                   intact |-> ok /\ fs.writers \ {p} = {}],
                        !.writers = @ \ {p},
                        !.locks = @ \ {LockPathOf(procs[p].arg)},
                        !.last = p]
    /\ procs' = [procs EXCEPT ![p].pc = "done", ![p].saved = TRUE]
    /\ UNCHANGED <<graphs, mref, tref, aref, matcher, pidx, aidx, disk, threshold,
                   clock, ticks, nq, last, probe, client>>

StartProc == \E p \in Procs : \E arg \in GraphArgs : Start(p, arg)

LinkProc == \E p \in Procs : \E out \in ProcOutcomes : Link(p, out)

AcquireLock == \E p \in Procs : Acquire(p)

OpenGraphFile == \E p \in Procs : BeginWrite(p)

CloseGraphFile == \E p \in Procs : \E ok \in BOOLEAN : EndWrite(p, ok)

NextProcs ==
    StartProc \/ LinkProc \/ AcquireLock \/ OpenGraphFile \/ CloseGraphFile \/ Tick

SpecProcs == InitProcs /\ [][NextProcs]_vars

----------------------------------------------------------------------------
\* AutoLinker.generate_and_insert called directly, on a graph that also
\* holds Article 1, with responses whose links entries and principles meet
\* the existing nodes in the ways the linking step distinguishes.

MaxLinks == 2

A1 == <<"article", 111, -1>>

\* the seed graph with Article 1 ("the Union") after its other nodes
NumberedGraph ==
    [SeedGraph EXCEPT !.nodes = Append(@, A1),
                      !.data = Append(@, Attr("article", 0, 8, 8, "1", FALSE, 0))]

LinkGraphs == {SeedGraph, NumberedGraph}

LinkQuery == 3

LinkOutcomes ==
    { Failure("empty"),
      \* the first principle is the text of P1, the second is new
      Response(0, <<1, 4>>, <<>>, <<1, 2>>),
      \* one new principle linked to Article 19, one unknown article
      Response(0, <<4>>, <<7>>, <<1>>),
      \* one new principle linked to Article 14, which no node carries
      Response(0, <<4>>, <<5>>, <<3>>),
      \* a principle close to P1 whose entry names Article 21
      Response(0, <<2>>, <<>>, <<2>>) }

InitLink ==
    /\ \E g \in LinkGraphs : \E th \in Thresholds : Constructed(g, th)
    /\ probe = NoProbe
    /\ procs = NoProcs
    /\ fs = NoFiles
    /\ client = NoClient

\* the state and the record of the call once generate_and_insert returned
\* or raised gi
InsertDone(query, out, gi) ==
    /\ graphs' = [graphs EXCEPT ![aref] = gi.g]
    /\ pidx' = gi.pidx
    /\ aidx' = gi.aidx
    /\ disk' = [disk EXCEPT !.pfile = gi.pfile, !.afile = gi.afile]
    /\ last' = [Generated(Called(query, TRUE, NoMatch), gi, out)
                   EXCEPT !.gi = IF gi.raised THEN "raised"
                                 ELSE IF gi.success THEN "success" ELSE "failed",
                          !.success = gi.success,
                          !.calls = <<"generate">>]

Insert(query, out) ==
    /\ nq < MaxLinks
    /\ nq' = nq + 1
    /\ InsertDone(query, out,
                  GenerateAndInsert(graphs[aref], pidx, aidx, disk, query, out, clock))
    /\ UNCHANGED <<mref, tref, aref, matcher, threshold, clock, ticks, probe,
                   procs, fs, client>>

InsertAny == \E out \in LinkOutcomes : Insert(LinkQuery, out)

NextLink == InsertAny \/ Tick

SpecLink == InitLink /\ [][NextLink]_vars

----------------------------------------------------------------------------
\* Tool 1: one LLMClient, constructed with some Config.MAX_RETRIES, whose
\* generate_response is called with or without max_retries; each API call
\* succeeds or raises.

MaxRetries == 3

RetryCounts == 0..MaxRetries

Prompts == {1, 2}

InitRetry ==
    /\ \E th \in Thresholds : Constructed(SeedGraph, th)
    /\ probe = NoProbe
    /\ procs = NoProcs
    /\ fs = NoFiles
    /\ \E r \in RetryCounts : client = [NoClient EXCEPT !.retries = r]

\* lines 55-57: with max attempts to make, the call starts
\* its first attempt, or falls off the end of the function when range(max)
\* is empty
Entered(prompt, arg, max) ==
    client' = IF max <= 0
              THEN [client EXCEPT !.pc = "returned", !.arg = arg, !.max = max,
                                  !.result = "None", !.prompt = prompt]
              ELSE [client EXCEPT !.pc = "trying", !.arg = arg, !.max = max,
                                  !.prompt = prompt]

GenerateResponse(prompt, arg) ==
    /\ client.pc = "idle"
    /\ Entered(prompt, arg, RetriesOr(arg, client.retries))
    /\ UNCHANGED <<graphs, mref, tref, aref, matcher, pidx, aidx, disk, threshold,
                   clock, ticks, nq, last, probe, procs, fs>>

\* lines 57-73: one pass of the loop, ok telling whether the API call
\* returned a completion
Attempt(ok) ==
    /\ client.pc = "trying"
    /\ client' =
          IF ok
          THEN [client EXCEPT !.pc = "returned", !.made = @ + 1,
                              !.result = "content"]
          ELSE IF client.attempt < client.max - 1
          THEN [client EXCEPT !.made = @ + 1, !.failed = @ + 1,
                              !.slept = @ + 2 ^ client.attempt,
                              !.attempt = @ + 1]
          ELSE [client EXCEPT !.pc = "raised", !.made = @ + 1, !.failed = @ + 1,
                              !.result = "APIError"]
    /\ UNCHANGED <<graphs, mref, tref, aref, matcher, pidx, aidx, disk, threshold,
                   clock, ticks, nq, last, probe, procs, fs>>

CallClient ==
    \E prompt \in Prompts :
        \E arg \in {NotGiven} \cup {Given(n) : n \in RetryCounts} :
            GenerateResponse(prompt, arg)

ApiCall == \E ok \in BOOLEAN : Attempt(ok)

NextRetry == CallClient \/ ApiCall

SpecRetry == InitRetry /\ [][NextRetry]_vars

----------------------------------------------------------------------------
\* Helpers of the properties.

Range(seq) == {seq[i] : i \in 1..Len(seq)}

Linker == graphs[aref]

IsCall == nq' = nq + 1

EdgesBetween(g, x, y, t) ==
    {e \in g.edges : /\ (e.a = x /\ e.b = y) \/ (e.a = y /\ e.b = x)
                     /\ e.type = t}

\* the best cosine similarity of a query over the matcher's scenarios
BestScore(m, query) ==
    IF Len(m.nodes) = 0 THEN 0
    ELSE CHOOSE v \in {MatcherSim(query, m.emb[i]) : i \in 1..Len(m.nodes)} :
             \A i \in 1..Len(m.nodes) : MatcherSim(query, m.emb[i]) <= v

----------------------------------------------------------------------------
\* C1: a process_query called with force_llm false whose matcher lookup
\* returns a scenario never calls generate_and_insert or the LLM, and its
\* result has method_used = "graph_match".
C1_GraphMatchSkipsLinker ==
    (last.n > 0 /\ ~last.force /\ last.matched) =>
        /\ last.llmCalls = 0
        /\ last.gi = "none"
        /\ last.method = "graph_match"
        /\ last.success

\* C1 witness: a second query answered from a scenario that an earlier
\* auto-link run inserted.
C1_Witness ==
    /\ last.n = 2
    /\ ~last.force
    /\ last.matched
    /\ last.matchId[3] # -1
    /\ last.method = "graph_match"

----------------------------------------------------------------------------
\* C2: every process_query whose matcher lookup misses makes exactly one
\* LLM call, and when the LLM answers with an object the graph gains exactly
\* one scenario node and the new scenario is joined by a "supports" edge to
\* the principle id returned for each principle of the response.
C2_OneScenarioAndSupports ==
    [][(IsCall /\ ~last'.force /\ ~last'.matched) =>
          /\ last'.llmCalls = 1
          /\ last'.out.kind = "json" =>
                /\ Cardinality(NodesOfType(graphs'[aref'], "scenario"))
                      = Cardinality(NodesOfType(Linker, "scenario")) + 1
                /\ Len(last'.principles) = Len(last'.out.principles)
                /\ \A i \in 1..Len(last'.principles) :
                      EdgesBetween(graphs'[aref'], last'.scenario,
                                   last'.principles[i], "supports") # {}]_vars

\* C3: after a process_query(q) that succeeded by llm_generation, the next
\* process_query(q) in the same process is answered by graph_match from the
\* scenario just inserted, with no LLM call.
C3_RepeatedQueryMatches ==
    [][(/\ IsCall
        /\ last.success
        /\ last.method = "llm_generation"
        /\ last'.query = last.query
        /\ ~last'.force) =>
          /\ last'.method = "graph_match"
          /\ last'.llmCalls = 0
          /\ last'.matchId = last.scenario]_vars

\* the article nodes joined to a principle by an "explains" edge
Explained(g, pid) ==
    {n \in NodesOfType(g, "article") : EdgesBetween(g, pid, n, "explains") # {}}

\* C4: after a successful generate_and_insert, expand_context on the new
\* scenario's id returns exactly the principles returned for the query and
\* exactly the articles those principles explain.
C4_RoundTrip ==
    (last.n > 0 /\ last.gi = "success") =>
        /\ Range(last.ctxP) = Range(last.principles)
        /\ Range(last.ctxA) =
              UNION {Explained(Linker, last.principles[i]) :
                         i \in 1..Len(last.principles)}

\* the principle nodes that exist when the i-th principle of the response is
\* looked up: those of the graph before the call and those recorded for the
\* earlier principles of the same response
PriorPrinciples(i) ==
    NodesOfType(Linker, "principle") \cup {last'.principles[j] : j \in 1..(i - 1)}

\* C5: in a generate_and_insert that returns, every principle of the response
\* that is at least 0.92 similar to a principle node already in the graph
\* (one created earlier in the same call included) is recorded under the id
\* of a node that existed before it, and no node is created for it.
C5_PrincipleDedup ==
    [][(IsCall /\ last'.gi = "success") =>
          \A i \in 1..Len(last'.principles) :
              (\E n \in PriorPrinciples(i) :
                   PrincipleSim(Data(graphs'[aref'], n).text,
                                last'.out.principles[i]) >= PrincipleThreshold)
              => last'.principles[i] \in PriorPrinciples(i)]_vars

\* the numbers that occur in an article string
NumbersIn(s) == {s[k] : k \in {j \in 1..Len(s) : IsNumber(s[j])}}

\* the article nodes of g whose number field is num, by position in the graph
Numbered(g, num) ==
    {k \in 1..Len(g.nodes) : g.data[k].type = "article" /\ g.data[k].number = num}

\* C6 as stated: an article string of the response that contains a number
\* equal to the number field of an existing article node resolves to that
\* node by the exact lookup, never by semantic search.
C6_NumberAnywhere ==
    (last.n > 0 /\ last.gi = "success") =>
        \A i \in 1..Len(last.articles) :
            \A k \in 1..Len(Linker.nodes) :
                (/\ Linker.data[k].type = "article"
                 /\ Linker.data[k].number \in NumbersIn(Str[last.out.articles[i]]))
                => /\ last.how[i] = "exact"
                   /\ last.articles[i] = Linker.nodes[k]

\* C6: when the first "Article <number>" reference of an article string of
\* the response carries the number field of an existing article node, the
\* string resolves to the first such node of the graph by the exact lookup,
\* without semantic search, even when another article scores higher or has
\* its title contained in the string.
C6_FirstArticleReference ==
    (last.n > 0 /\ last.gi = "success") =>
        \A i \in 1..Len(last.articles) :
            LET num == FirstArticleNumber(Str[last.out.articles[i]])
            IN  (num # "" /\ Numbered(Linker, num) # {})
                => /\ last.how[i] = "exact"
                   /\ last.articles[i] = Linker.nodes[Min(Numbered(Linker, num))]

\* C6 witness: "Article 19 life liberty" resolved to article 19 by the exact
\* lookup although article 21, whose title "life liberty" the string contains,
\* scores above the article threshold in semantic search.
C6_Witness ==
    /\ last.gi = "success"
    /\ A21 \in NodeSet(Linker)
    /\ \E i \in 1..Len(last.articles) :
          /\ last.out.articles[i] = 3
          /\ Contains(Str[Data(Linker, A21).title], Str[3])
          /\ ArticleSim(3, Data(Linker, A21).text) >= ArticleThreshold
          /\ ArticleSim(3, Data(Linker, A19).text) < ArticleThreshold
          /\ last.how[i] = "exact"
          /\ last.articles[i] = A19

\* C7: after _add_edge_if_missing(a, b, t) was called twice in a row, the
\* second call changed nothing and exactly one edge of type t joins a and b.
C7_EdgeIdempotent ==
    [][probe'.n = 2 =>
          /\ graphs' = graphs
          /\ Cardinality(EdgesBetween(graphs'[aref'], probe'.x, probe'.y,
                                      probe'.t)) = 1]_vars

\* C8: a lookup made by process_query returns a scenario exactly when the
\* best score over the scenarios reaches the threshold the LawReader was
\* configured with.
C8_CallerThreshold ==
    [][(IsCall /\ ~last'.force) =>
          (last'.matched <=> BestScore(matcher, last'.query) >= threshold)]_vars

\* C9: process_query always returns: no exception leaves it, the answer of
\* its result is a non-empty string, and a result with success false carries
\* one of the two explanatory answers.
C9_AlwaysAnswers ==
    last.n > 0 =>
        /\ ~last.escaped
        /\ last.answer # ""
        /\ ~last.success => last.answer \in {"System error", "Unable to process"}

\* C9 witness: generate_and_insert raised inside process_query and the caller
\* received the "System error" result.
C9_Witness ==
    /\ last.n > 0
    /\ last.gi = "raised"
    /\ ~last.success
    /\ last.answer = "System error"

\* C10: when the LLM call raises, returns undecodable text or returns an
\* empty object, generate_and_insert fails with "LLM failed." and leaves the
\* graph, both indexes and the files as they were; process_query returns
\* success false with method_used "llm_generation", saves nothing and does
\* not refresh the matcher.
C10_LLMFailureChangesNothing ==
    [][(IsCall /\ last'.out.kind \in {"raise", "nojson", "empty"}) =>
          /\ last'.gi = "failed"
          /\ last'.giError = "LLM failed."
          /\ graphs' = graphs
          /\ pidx' = pidx
          /\ aidx' = aidx
          /\ disk' = disk
          /\ matcher' = matcher
          /\ ~last'.success
          /\ last'.method = "llm_generation"
          /\ ~last'.saved
          /\ ~last'.refreshed]_vars

\* C10 witness: a second call whose LLM call returned "{}" and that ended in
\* the failure result.
C10_Witness ==
    /\ last.n = 2
    /\ last.out.kind = "empty"
    /\ last.gi = "failed"
    /\ last.method = "llm_generation"

\* the text the matcher embeds for a scenario node
Embedded(g, id) ==
    IF Data(g, id).example # 0 THEN Data(g, id).example ELSE IdText

\* C11: when a process_query has succeeded on the llm_generation path, the
\* matcher, the traversal and the auto-linker hold the same graph instance,
\* the matcher was refreshed before expand_context was called, and its
\* scenario list and embedding rows are exactly the scenario nodes of that
\* graph, the new one included.
C11_SharedGraphAfterLink ==
    (last.n > 0 /\ last.gi = "success") =>
        /\ mref = aref
        /\ tref = aref
        /\ \E i, j \in 1..Len(last.calls) :
              i < j /\ last.calls[i] = "refresh" /\ last.calls[j] = "expand"
        /\ Range(matcher.nodes) = NodesOfType(Linker, "scenario")
        /\ Len(matcher.nodes) = Cardinality(NodesOfType(Linker, "scenario"))
        /\ Len(matcher.emb) = Len(matcher.nodes)
        /\ \A i \in 1..Len(matcher.nodes) :
              matcher.emb[i] = Embedded(Linker, matcher.nodes[i])
        /\ last.scenario \in Range(matcher.nodes)

\* C11 witness: a second call succeeded on the llm_generation path on a graph
\* that already held two scenarios, and the matcher lists all three.
C11_Witness ==
    /\ last.n = 2
    /\ last.gi = "success"
    /\ last.success
    /\ mref = aref
    /\ Len(matcher.nodes) = 3
    /\ last.scenario = matcher.nodes[3]

TypesOf(g, e) == {Data(g, e.a).type, Data(g, e.b).type}

\* every "supports" edge joins a scenario and a principle, every "explains"
\* edge a principle and an article
WellTyped(g) ==
    \A e \in g.edges :
        /\ HasNode(g, e.a) /\ HasNode(g, e.b)
        /\ e.type = "supports" => TypesOf(g, e) = {"scenario", "principle"}
        /\ e.type = "explains" => TypesOf(g, e) = {"principle", "article"}

\* no pair of nodes carries two edges of the same type
NoDuplicateEdge(g) ==
    \A e \in g.edges : \A f \in g.edges :
        (e.type = f.type /\ {e.a, e.b} = {f.a, f.b}) => e = f

\* C12: from a graph whose edges are well typed, every sequence of
\* process_query calls keeps every "supports" edge between a scenario and a
\* principle and every "explains" edge between a principle and an article,
\* in memory and in the graph file, and never doubles an edge.
C12_EdgeTyping ==
    /\ \A h \in DOMAIN graphs : WellTyped(graphs[h]) /\ NoDuplicateEdge(graphs[h])
    /\ WellTyped(disk.graph)
    /\ NoDuplicateEdge(disk.graph)

\* C12 witness: a call added a "supports" edge from its new scenario and an
\* "explains" edge from a principle it created.
C12_Witness ==
    /\ last.gi = "success"
    /\ \E p \in Range(last.newp) :
          /\ EdgesBetween(Linker, last.scenario, p, "supports") # {}
          /\ \E a \in NodesOfType(Linker, "article") :
                EdgesBetween(Linker, p, a, "explains") # {}
    /\ disk.graph = Linker

\* the texts generate_and_insert looks up in the index of a type
LookupTexts(type) ==
    IF type = "principle"
    THEN UNION {Range(r.principles) : r \in LLMOutcomes}
    ELSE UNION {Range(r.articles) : r \in LLMOutcomes}

LookupThreshold(type) ==
    IF type = "principle" THEN PrincipleThreshold ELSE ArticleThreshold

\* an index of the AutoLinker whose graph is g: as many vectors as ids and
\* texts, row i the embedding of texts[i], the text of node ids[i], and no
\* search that fails to turn a row position into an id
Aligned(g, idx, type) ==
    /\ Len(idx.rows) = Len(idx.ids)
    /\ Len(idx.texts) = Len(idx.ids)
    /\ \A i \in 1..Len(idx.ids) :
          /\ idx.rows[i] = idx.texts[i]
          /\ HasNode(g, idx.ids[i])
          /\ Data(g, idx.ids[i]).text = idx.texts[i]
    /\ \A t \in LookupTexts(type) :
          ~SemanticSearch(idx, t, type, LookupThreshold(type)).err

\* C13: after the construction of an AutoLinker and after every
\* generate_and_insert, both of its indexes hold as many vectors as ids and
\* texts, row i is the embedding of texts[i] of node ids[i], and no search
\* yields a row position without an id.
C13_IndexAligned ==
    \A p \in Procs :
        procs[p].pc \in {"ready", "linked", "locked", "writing", "done"} =>
            /\ Aligned(procs[p].g, procs[p].pidx, "principle")
            /\ Aligned(procs[p].g, procs[p].aidx, "article")

\* C14: the writes of the graph file by two processes never overlap.
C14_WritesExcluded ==
    Cardinality(fs.writers) <= 1

\* every node of g is in h with the same attributes, and every edge of g
Grows(g, h) ==
    /\ \A n \in NodeSet(g) : HasNode(h, n) /\ Data(h, n) = Data(g, n)
    /\ g.edges \subseteq h.edges

\* C15: whatever the processes do, the graph file and the graph in the
\* memory of each process only grow: no node or edge disappears and no
\* attribute of a node changes.
C15_GraphOnlyGrows ==
    [][/\ Grows(fs.graph.g, fs'.graph.g)
       /\ \A p \in Procs :
             procs[p].pc # "new" => Grows(procs[p].g, procs'[p].g)]_vars

\* C16: when two processes that loaded the same graph file have both saved
\* after a successful auto-link, the file holds exactly the graph of the
\* process whose save ran last, and nothing that only the other one added.
C16_LastWriterWins ==
    (/\ \A p \in Procs : procs[p].pc = "done" /\ procs[p].saved
     /\ \A p, q \in Procs : procs[p].base = procs[q].base) =>
        /\ fs.graph = [g |-> procs[fs.last].g, intact |-> TRUE]
        /\ \A q \in Procs \ {fs.last} :
              (NodeSet(procs[q].g) \ NodeSet(procs[fs.last].g))
                  \cap NodeSet(fs.graph.g) = {}

\* C17: two _add_node calls with the same content and type made at two
\* different epoch seconds return two different ids, the second creates a
\* second node, and the suffix of an id is the last six digits of the second.
C17_DistinctIdsOverTime ==
    [][(/\ probe.op = "node"
        /\ probe'.op = "node"
        /\ probe'.n = probe.n + 1
        /\ probe'.s = probe.s
        /\ probe'.t = probe.t
        /\ probe'.at # probe.at) =>
          /\ probe'.r # probe.r
          /\ Len(graphs'[aref'].nodes) = Len(graphs[aref].nodes) + 1
          /\ probe'.r[3] = probe'.at % TimeSuffixMod]_vars

\* C18: a LawReader constructed while the graph file is missing fails to
\* construct: it never links, never saves, and none of its components holds
\* an empty graph in place of the file.
C18_MissingFileFails ==
    \A p \in Procs :
        procs[p].missing =>
            /\ procs[p].pc = "crashed"
            /\ procs[p].g = NewProc.g
            /\ procs[p].base = NewProc.base
            /\ ~procs[p].saved

\* C18 witness: both processes were started on a missing graph file and both
\* constructions failed.
C18_Witness ==
    /\ ~fs.present
    /\ \A p \in Procs : procs[p].missing /\ procs[p].pc = "crashed"

\* the scenario id a call ended with: the matched one or the inserted one
ResultScenario ==
    IF last.method = "graph_match" THEN last.matchId ELSE last.scenario

\* the last two calls a process_query made
LastTwoCalls ==
    IF Len(last.calls) < 2 THEN last.calls
    ELSE SubSeq(last.calls, Len(last.calls) - 1, Len(last.calls))

\* C19 as stated: every process_query, on every path, ends with
\* expand_context and then simplify_answer.
C19_EveryPathExpands ==
    last.n > 0 => LastTwoCalls = <<"expand", "simplify">>

\* C19: every process_query that returns success, by graph_match or by
\* llm_generation, ended with expand_context on the resulting scenario id and
\* then simplify_answer on the context returned; a call that returns success
\* false (LLM failure, exception) never called simplify_answer.
C19_SuccessPathsExpand ==
    last.n > 0 =>
        /\ last.success =>
              /\ LastTwoCalls = <<"expand", "simplify">>
              /\ ~ExpandContext(graphs[tref], ResultScenario).err
              /\ last.ctxP = ExpandContext(graphs[tref], ResultScenario).principles
              /\ last.ctxA = ExpandContext(graphs[tref], ResultScenario).articles
              /\ last.answer =
                    SimplifyAnswer(ExpandContext(graphs[tref], ResultScenario))
        /\ ~last.success => \A i \in 1..Len(last.calls) : last.calls[i] # "simplify"

\* C19 witness: a call that succeeded by llm_generation and answered from the
\* context of the scenario it had just inserted, principles and articles
\* included.
C19_Witness ==
    /\ last.n > 0
    /\ last.success
    /\ last.method = "llm_generation"
    /\ LastTwoCalls = <<"expand", "simplify">>
    /\ Len(last.ctxP) > 0
    /\ Len(last.ctxA) > 0

\* the principles a scenario is joined to by a "supports" edge
Supported(g, sid) ==
    {n \in NodesOfType(g, "principle") : EdgesBetween(g, sid, n, "supports") # {}}

\* C20: for every graph and every scenario in it, expand_context returns as
\* principles exactly the "supports" neighbours of type principle, and as
\* articles exactly the "explains" neighbours of type article of those
\* principles, each once.
C20_ExpandContextExact ==
    \A sid \in NodesOfType(Linker, "scenario") :
        /\ ~ExpandContext(Linker, sid).err
        /\ Range(ExpandContext(Linker, sid).principles) = Supported(Linker, sid)
        /\ Len(ExpandContext(Linker, sid).principles)
              = Cardinality(Supported(Linker, sid))
        /\ Range(ExpandContext(Linker, sid).articles)
              = UNION {Explained(Linker, p) : p \in Supported(Linker, sid)}
        /\ Len(ExpandContext(Linker, sid).articles)
              = Cardinality(UNION {Explained(Linker, p) : p \in Supported(Linker, sid)})

\* C20 witness: after two _add_edge_if_missing calls, a scenario two of whose
\* principles explain the same article, which its context lists once.
C20_Witness ==
    \E sid \in NodesOfType(Linker, "scenario") :
        /\ \E p, q \in Supported(Linker, sid) :
              p # q /\ Explained(Linker, p) \cap Explained(Linker, q) # {}
        /\ Len(ExpandContext(Linker, sid).articles) = 1
        /\ probe.n = 2

----------------------------------------------------------------------------
\* C21: after every successful generate_and_insert, the id list of the
\* principle index is exactly the principle nodes of the graph and the id
\* list of the article index exactly its article nodes, the nodes created in
\* the call included, and each index file holds the rows of its index.
C21_IndexesCoverGraph ==
    (last.n > 0 /\ last.gi = "success") =>
        /\ Range(pidx.ids) = NodesOfType(Linker, "principle")
        /\ Range(aidx.ids) = NodesOfType(Linker, "article")
        /\ Range(last.newp) \subseteq Range(pidx.ids)
        /\ Range(last.newa) \subseteq Range(aidx.ids)
        /\ Len(pidx.rows) = Len(pidx.ids)
        /\ Len(aidx.rows) = Len(aidx.ids)
        /\ disk.pfile.rows = pidx.rows
        /\ disk.afile.rows = aidx.rows

----------------------------------------------------------------------------
\* the article numbers a links entry lists after the word "Article"
ArticleNumbersOf(s) ==
    {s[k] : k \in {j \in 1..Len(s) :
                      /\ IsNumber(s[j])
                      /\ \E a \in 1..(j - 1) : s[a] = "Article"}}

\* the links entry written for the i-th principle of a response
EntryOf(out, i) ==
    IF i <= Len(out.links) THEN LinkStr[out.links[i]] ELSE <<>>

\* the article nodes that carry one of a set of numbers
ArticlesNumbered(g, nums) ==
    {n \in NodesOfType(g, "article") : Data(g, n).number \in nums}

\* C22: for each principle a generate_and_insert created, its "explains"
\* edges go to exactly the existing article nodes whose number is listed
\* after "Article" in that principle's links entry; a listed number that no
\* article node carries adds no edge and creates no node, and the call goes
\* on to its end.
C22_LinksFollowArticleNumbers ==
    [][(IsCall /\ last'.out.kind = "json") =>
          /\ last'.gi = "success"
          /\ \A i \in 1..Len(last'.principles) :
                last'.principles[i] \in Range(last'.newp) =>
                    Explained(graphs'[aref'], last'.principles[i])
                        = ArticlesNumbered(Linker,
                                           ArticleNumbersOf(EntryOf(last'.out, i)))
          /\ NodesOfType(graphs'[aref'], "article") \ NodesOfType(Linker, "article")
                \subseteq Range(last'.newa)]_vars

----------------------------------------------------------------------------
\* the article nodes the linking step reaches from one links entry
LinkedFrom(g, entry) ==
    {FindArticleByNumberOrTitle(g, <<"Article", LinkNumbers(entry)[k]>>) :
         k \in 1..Len(LinkNumbers(entry))} \ {NoNode}

\* C23: the links entry applied to a principle that generate_and_insert
\* created is the entry written for it: the N-th principle of the response
\* is linked from the N-th links entry, whichever earlier principles of the
\* response were deduplicated against existing nodes.
C23_EntryOfSamePosition ==
    [][(IsCall /\ last'.gi = "success") =>
          \A i \in 1..Len(last'.principles) :
              last'.principles[i] \in Range(last'.newp) =>
                  Explained(graphs'[aref'], last'.principles[i])
                      = LinkedFrom(Linker, EntryOf(last'.out, i))]_vars

----------------------------------------------------------------------------
\* the edges of g that touch node n
EdgesAt(g, n) == {e \in g.edges : e.a = n \/ e.b = n}

\* C24: when a principle of the response is deduplicated against an existing
\* principle node, generate_and_insert adds no node for it and leaves the
\* attributes and the "explains" edges of that node unchanged; the only
\* change that touches the node is the "supports" edge from the new scenario.
C24_DedupLeavesNodeAlone ==
    [][(IsCall /\ last'.gi = "success") =>
          /\ Cardinality(NodesOfType(graphs'[aref'], "principle"))
                = Cardinality(NodesOfType(Linker, "principle"))
                  + Cardinality(Range(last'.newp))
          /\ \A i \in 1..Len(last'.principles) :
                last'.principles[i] \notin Range(last'.newp) =>
                    /\ HasNode(Linker, last'.principles[i])
                    /\ Data(graphs'[aref'], last'.principles[i])
                          = Data(Linker, last'.principles[i])
                    /\ Explained(graphs'[aref'], last'.principles[i])
                          = Explained(Linker, last'.principles[i])
                    /\ EdgesAt(graphs'[aref'], last'.principles[i])
                          \ EdgesAt(Linker, last'.principles[i])
                       \subseteq {[a |-> last'.scenario, b |-> last'.principles[i],
                                   type |-> "supports"]}]_vars

\* C24 witness: a principle close to P1 was recorded under P1, whose entry
\* names Article 21; P1 still explains Article 19 only and supports the new
\* scenario.
C24_Witness ==
    /\ last.gi = "success"
    /\ last.out = Response(0, <<2>>, <<>>, <<2>>)
    /\ last.principles = <<P1>>
    /\ last.newp = <<>>
    /\ Explained(Linker, P1) = {A19}
    /\ EdgesBetween(Linker, last.scenario, P1, "supports") # {}

----------------------------------------------------------------------------
\* the number of attempts a call is entitled to: max_retries or, when that
\* is not given, Config.MAX_RETRIES
AttemptsAllowed ==
    IF client.arg = NotGiven THEN client.retries ELSE client.arg[1]

\* C27: generate_response makes at most N API attempts, N being max_retries
\* or, when that is not given, Config.MAX_RETRIES; it returns the content of
\* the first attempt that succeeds, raises APIError when all N attempts
\* failed, and never returns without a response string, whatever N is.
C27_RetriesThenRaises ==
    /\ client.made <= AttemptsAllowed
    /\ client.pc = "returned" =>
          /\ client.result = "content"
          /\ client.failed = client.made - 1
    /\ client.pc = "raised" =>
          /\ client.result = "APIError"
          /\ client.made = AttemptsAllowed
          /\ client.failed = AttemptsAllowed
    /\ client.pc = "trying" => client.failed < AttemptsAllowed

----------------------------------------------------------------------------
\* the rows of an index are the embeddings of the texts that a scan of g
\* for the nodes of a type yields, one row per id, in the order of the scan
RowsOfScan(g, idx, type) ==
    /\ idx.ids = ScanIds(g, type)
    /\ idx.rows = ScanTexts(g, type)

\* C25: whenever a process has started and loaded the index files together
\* with the graph file, after any interleaving of earlier auto-link runs of
\* one or several processes, each loaded index has exactly one row per id
\* obtained by scanning the loaded graph, in the same order.
C25_LoadedIndexMatchesGraph ==
    \A p \in Procs :
        procs[p].pc = "ready" =>
            /\ RowsOfScan(procs[p].g, procs[p].pidx, "principle")
            /\ RowsOfScan(procs[p].g, procs[p].aidx, "article")

----------------------------------------------------------------------------
\* C26: every generate_and_insert call ends in a success result or in a
\* failure result and never raises; whenever the LLM returned a non-empty
\* object the result is success, whatever the graph holds, a graph without
\* indexed principles or articles and a response with fewer links than new
\* principles included.
C26_SuccessOrFailureNeverRaises ==
    (last.n > 0 /\ last.llmCalls = 1) =>
        /\ last.gi \in {"success", "failed"}
        /\ last.out.kind = "json" => last.gi = "success"

----------------------------------------------------------------------------
\* C28: a process_query that takes the graph_match path changes nothing: the
\* graph each component holds, the matcher's scenario embeddings, both vector
\* indexes, the graph file and the index files are after the call what they
\* were before it.
C28_GraphMatchChangesNothing ==
    [][(IsCall /\ ~last'.force /\ last'.matched) =>
          /\ graphs' = graphs
          /\ mref' = mref
          /\ tref' = tref
          /\ aref' = aref
          /\ matcher' = matcher
          /\ pidx' = pidx
          /\ aidx' = aidx
          /\ disk' = disk]_vars

\* C28 witness: a second call answered by graph_match from a scenario that
\* the first call inserted, the state of the first call still in place.
C28_Witness ==
    /\ last.n = 2
    /\ last.method = "graph_match"
    /\ last.success
    /\ last.matchId \notin NodeSet(SeedGraph)
    /\ Len(matcher.nodes) = Cardinality(NodesOfType(Linker, "scenario"))
    /\ disk.graph = Linker
    /\ mref = aref

----------------------------------------------------------------------------
\* C29: whenever process_query returns success false, the graph in the
\* memory of the auto-linker is what it was before the call: a query that
\* failed, at the LLM or by an error raised during insertion or re-indexing,
\* leaves no node behind for a later successful query to propagate and save.
C29_FailedQueryLeavesGraph ==
    [][(IsCall /\ ~last'.success) => graphs'[aref'] = graphs[aref]]_vars

----------------------------------------------------------------------------
\* C30: the article-resolution step of generate_and_insert adds no edge: the
\* only edges a call adds are "supports" edges between the new scenario and
\* its principles and "explains" edges between a principle the call created
\* and an already existing article named in that principle's links entry; an
\* article node created in that step has no edge at the end of the call and
\* is not in the context expand_context returns for the new scenario.
C30_ArticleStepAddsNoEdge ==
    [][(IsCall /\ last'.gi = "success") =>
          /\ \A e \in graphs'[aref'].edges \ Linker.edges :
                \/ /\ e.type = "supports"
                   /\ e.a = last'.scenario
                   /\ e.b \in Range(last'.principles)
                \/ /\ e.type = "explains"
                   /\ e.a \in Range(last'.newp)
                   /\ \E i \in 1..Len(last'.principles) :
                         /\ last'.principles[i] = e.a
                         /\ e.b \in ArticlesNumbered(
                                       Linker, ArticleNumbersOf(EntryOf(last'.out, i)))
          /\ \A a \in Range(last'.newa) :
                /\ EdgesAt(graphs'[aref'], a) = {}
                /\ a \notin Range(ExpandContext(graphs'[aref'],
                                                last'.scenario).articles)]_vars

====
